---- MODULE Spec2Model ----
(***************************************************************************)
(* egl::Surface (ANGLE, libANGLE/Surface.cpp): construction from an        *)
(* attribute map, two-phase initialization, the current-use count with     *)
(* deferred destruction, the texture binding, and the operations that      *)
(* forward to the platform backend (rx::SurfaceImpl).                      *)
(*                                                                         *)
(* One Surface object is modelled.  Its collaborators (the backend, the    *)
(* default framebuffer, textures) are modelled by the calls the Surface    *)
(* makes on them, recorded in `calls`, and by the values they hand back,   *)
(* which are chosen nondeterministically.                                  *)
(***************************************************************************)
EXTENDS Integers, Sequences, FiniteSets

\* ------------------------------------------------------------------ bounds

\* setIsCurrent(true) is not taken beyond this count.
MaxCount == 2
\* Sizes the backend may report are 1..MaxDim; a width/height attribute is 2.
MaxDim == 3
\* An attribute map sets keys of at most this many of the groups of keys.
MaxAttributeGroups == 1

\* ------------------------------------------------------- program constants

EGL_FALSE == 0
EGL_TRUE == 1
EGL_NO_TEXTURE == 12380
EGL_TEXTURE_RGB == 12381
EGL_TEXTURE_2D == 12383

SurfaceTypes == {"EGL_WINDOW_BIT", "EGL_PBUFFER_BIT", "EGL_PIXMAP_BIT"}

AttributeKeys ==
    {"EGL_POST_SUB_BUFFER_SUPPORTED_NV", "EGL_FIXED_SIZE_ANGLE", "EGL_WIDTH",
     "EGL_HEIGHT", "EGL_TEXTURE_FORMAT", "EGL_TEXTURE_TARGET"}

\* The values an attribute map of the model may give to a key.
AttributeValues(key) ==
    CASE key = "EGL_POST_SUB_BUFFER_SUPPORTED_NV" -> {EGL_FALSE, EGL_TRUE}
      [] key = "EGL_FIXED_SIZE_ANGLE" -> {EGL_FALSE, EGL_TRUE}
      [] key = "EGL_WIDTH" -> {2}
      [] key = "EGL_HEIGHT" -> {2}
      [] key = "EGL_TEXTURE_FORMAT" -> {EGL_TEXTURE_RGB}
      [] key = "EGL_TEXTURE_TARGET" -> {EGL_TEXTURE_2D}

\* The keys read together by one part of the constructor.
AttributeGroups ==
    {{"EGL_POST_SUB_BUFFER_SUPPORTED_NV"},
     {"EGL_FIXED_SIZE_ANGLE", "EGL_WIDTH", "EGL_HEIGHT"},
     {"EGL_TEXTURE_FORMAT", "EGL_TEXTURE_TARGET"}}

\* Every attribute map of the model: a function from some of the keys to their
\* values, with keys of at most MaxAttributeGroups of the groups.
AttributeMaps ==
    LET all == UNION {AttributeValues(k) : k \in AttributeKeys}
    IN  {m \in UNION {[K -> all] : K \in SUBSET AttributeKeys} :
            /\ \A k \in DOMAIN m : m[k] \in AttributeValues(k)
            /\ Cardinality({G \in AttributeGroups : G \cap DOMAIN m # {}})
                  <= MaxAttributeGroups}

\* Textures that may be handed to bindTexImage; NoTexture is the null binding.
Textures == {"t1", "t2"}
NoTexture == "nullptr"

\* What a backend operation returning egl::Error may return.
BackendErrors == {"EGL_BAD_ALLOC", "EGL_CONTEXT_LOST"}
BackendResults == {"EGL_SUCCESS"} \cup BackendErrors

BackendSizes == 1..MaxDim
BackendSwapBehaviors == {"EGL_BUFFER_PRESERVED", "EGL_BUFFER_DESTROYED"}

\* ------------------------------------------------------------------- state

VARIABLES
    attributes,              \* the AttributeMap given to the constructor
    mType,
    mPostSubBufferRequested,
    mFixedSize,
    mFixedWidth,
    mFixedHeight,
    mTextureFormat,
    mTextureTarget,
    mSwapBehavior,
    mCurrentCount,
    mDestroyed,
    mTexture,                \* the bound texture, or NoTexture
    defaultFramebuffer,      \* mState.defaultFramebuffer is non-null
    mImplementation,         \* mImplementation is non-null
    initializeCalled,        \* initialize() has been called
    boundSurface,            \* per texture: it records this surface as its source
    deleted,                 \* `delete this` has run: the object is gone
    aborted,                 \* a failed ASSERT ended the process
    destroyRuns,             \* how many times destroy() has run
    calls,                   \* calls on collaborators made by the last operation
    lastCall,                \* the last operation called on the surface
    lastError,               \* the egl::Error it returned ("none": returns no Error)
    lastValue,               \* the integer it returned (0 when it returns none)
    implError,               \* the egl::Error the backend returned to it
    implValue,               \* the value the backend reports in that call
    implSwapBehavior         \* what getSwapBehavior returned to initialize

constructed ==
    <<attributes, mType, mPostSubBufferRequested, mFixedSize, mFixedWidth,
      mFixedHeight, mTextureFormat, mTextureTarget>>

\* What destroy() and ~Surface() write.
teardown ==
    <<mTexture, defaultFramebuffer, mImplementation, boundSurface, deleted,
      destroyRuns>>

returned == <<lastError, lastValue, implError, implValue>>

\* What initialize() reads from the backend.
swapBehavior == <<mSwapBehavior, implSwapBehavior>>

vars ==
    <<constructed, swapBehavior, mCurrentCount, mDestroyed, initializeCalled,
      teardown, aborted, calls, lastCall, returned>>

\* ------------------------------------------------ state of WTF::Function

VARIABLES
    m_callableWrapper,       \* the unique_ptr: <<>> is null, <<w>> owns wrapper w
    stored,                  \* what the Function was constructed from and assigned
    functionCall,            \* the last operation on the Function
    functionIn,              \* the argument of the last operator() (0: none)
    functionOut,             \* what the last operator() returned (0: none)
    functionBool,            \* what the last operator bool returned
    functionAborted          \* a failed ASSERT ended the process

functionVars ==
    <<m_callableWrapper, stored, functionCall, functionIn, functionOut,
      functionBool, functionAborted>>

\* No Function exists: the state of these variables while another component
\* is the one under study.
NoFunction ==
    /\ m_callableWrapper = <<>>
    /\ stored = <<>>
    /\ functionCall = "none"
    /\ functionIn = 0
    /\ functionOut = 0
    /\ functionBool = FALSE
    /\ functionAborted = FALSE

\* ----------------------------------------------- state of FetchOptions

VARIABLES
    thisOptions,             \* the FetchOptions that encode() is called on
    encoderBuffer,           \* what the encoder has been given, in order
    decoderBuffer,           \* the data the last decode() read from
    failingField,            \* the field at which that data is defective (0: none)
    options,                 \* the FetchOptions& that decode() writes to
    decodeReturned,          \* what the last decode() returned
    fetchCall                \* the last operation on FetchOptions

fetchVars ==
    <<thisOptions, encoderBuffer, decoderBuffer, failingField, options,
      decodeReturned, fetchCall>>

\* No FetchOptions exists.
NoFetchOptions ==
    /\ thisOptions = "none"
    /\ encoderBuffer = <<>>
    /\ decoderBuffer = <<>>
    /\ failingField = 0
    /\ options = "none"
    /\ decodeReturned = FALSE
    /\ fetchCall = "none"

\* --------------------------------------------- state of RenderRubyBase

VARIABLES
    thisBase,                \* the base moveChildren is called on
    toBase,                  \* the base the children are moved to
    beforeChild,             \* the beforeChild of the last moveChildren (0: null)
    destroyedObjects,        \* the render objects that have been destroyed
    thisBaseBefore,          \* thisBase as the last moveChildren found it
    toBaseBefore,            \* toBase as the last moveChildren found it
    rubyCall                 \* the last operation on the bases

rubyVars ==
    <<thisBase, toBase, beforeChild, destroyedObjects, thisBaseBefore,
      toBaseBefore, rubyCall>>

\* No ruby base exists.
NoRubyBase ==
    /\ thisBase = "none"
    /\ toBase = "none"
    /\ beforeChild = 0
    /\ destroyedObjects = {}
    /\ thisBaseBefore = "none"
    /\ toBaseBefore = "none"
    /\ rubyCall = "none"

\* The state of the components other than the Surface, than the Function,
\* than the FetchOptions and than the ruby bases.
otherComponents == <<functionVars, fetchVars, rubyVars>>
notFunction == <<vars, fetchVars, rubyVars>>
notFetchOptions == <<vars, functionVars, rubyVars>>
notRubyBase == <<vars, functionVars, fetchVars>>

\* AttributeMap::get(key, defaultValue)
get(map, key, defaultValue) ==
    IF key \in DOMAIN map THEN map[key] ELSE defaultValue

\* ASSERT(expression): execution continues only when the expression holds;
\* otherwise the process is ended (a fatal contract violation).
ASSERT(expression) == expression

\* The object can be called: it has not been deleted and the process runs.
Callable == ~deleted /\ ~aborted

\* ------------------------------------------------------------ construction

\* A constructor that reads the texture attributes for every surface type.
Surface_ReadsTextureAttributesAlways(surfaceType, attribs) ==
    /\ attributes = attribs
    /\ mType = surfaceType
    /\ mCurrentCount = 0
    /\ mDestroyed = FALSE
    /\ mPostSubBufferRequested =
          (get(attribs, "EGL_POST_SUB_BUFFER_SUPPORTED_NV", EGL_FALSE) = EGL_TRUE)
    /\ mFixedSize = (get(attribs, "EGL_FIXED_SIZE_ANGLE", EGL_FALSE) = EGL_TRUE)
    /\ mFixedWidth =
          IF get(attribs, "EGL_FIXED_SIZE_ANGLE", EGL_FALSE) = EGL_TRUE
          THEN get(attribs, "EGL_WIDTH", 0) ELSE 0
    /\ mFixedHeight =
          IF get(attribs, "EGL_FIXED_SIZE_ANGLE", EGL_FALSE) = EGL_TRUE
          THEN get(attribs, "EGL_HEIGHT", 0) ELSE 0
    /\ mTextureFormat = get(attribs, "EGL_TEXTURE_FORMAT", EGL_NO_TEXTURE)
    /\ mTextureTarget = get(attribs, "EGL_TEXTURE_TARGET", EGL_NO_TEXTURE)
    /\ mSwapBehavior = "EGL_NONE"
    /\ mTexture = NoTexture
    /\ defaultFramebuffer = FALSE
    /\ mImplementation = TRUE

\* Surface::Surface followed by the derived class's constructor, which sets
\* mImplementation from the factory.
Surface(surfaceType, attribs) ==
    /\ attributes = attribs
    /\ mType = surfaceType
    /\ mCurrentCount = 0
    /\ mDestroyed = FALSE
    /\ mPostSubBufferRequested =
          (get(attribs, "EGL_POST_SUB_BUFFER_SUPPORTED_NV", EGL_FALSE) = EGL_TRUE)
    /\ mFixedSize = (get(attribs, "EGL_FIXED_SIZE_ANGLE", EGL_FALSE) = EGL_TRUE)
    /\ mFixedWidth =
          IF get(attribs, "EGL_FIXED_SIZE_ANGLE", EGL_FALSE) = EGL_TRUE
          THEN get(attribs, "EGL_WIDTH", 0) ELSE 0
    /\ mFixedHeight =
          IF get(attribs, "EGL_FIXED_SIZE_ANGLE", EGL_FALSE) = EGL_TRUE
          THEN get(attribs, "EGL_HEIGHT", 0) ELSE 0
    /\ mTextureFormat =
          IF surfaceType # "EGL_WINDOW_BIT"
          THEN get(attribs, "EGL_TEXTURE_FORMAT", EGL_NO_TEXTURE)
          ELSE EGL_NO_TEXTURE
    /\ mTextureTarget =
          IF surfaceType # "EGL_WINDOW_BIT"
          THEN get(attribs, "EGL_TEXTURE_TARGET", EGL_NO_TEXTURE)
          ELSE EGL_NO_TEXTURE
    /\ mSwapBehavior = "EGL_NONE"
    /\ mTexture = NoTexture
    /\ defaultFramebuffer = FALSE
    /\ mImplementation = TRUE

Init ==
    /\ \E surfaceType \in SurfaceTypes, attribs \in AttributeMaps :
          Surface(surfaceType, attribs)
    /\ initializeCalled = FALSE
    /\ boundSurface = [t \in Textures |-> FALSE]
    /\ deleted = FALSE
    /\ aborted = FALSE
    /\ destroyRuns = 0
    /\ calls = <<>>
    /\ lastCall = "Surface"
    /\ lastError = "none"
    /\ lastValue = 0
    /\ implError = "none"
    /\ implValue = 0
    /\ implSwapBehavior = "none"
    /\ NoFunction
    /\ NoFetchOptions
    /\ NoRubyBase

\* No Surface exists: the state of the Surface's variables while another
\* component is the one under study.
NoSurface ==
    /\ attributes = << >>
    /\ mType = "none"
    /\ mPostSubBufferRequested = FALSE
    /\ mFixedSize = FALSE
    /\ mFixedWidth = 0
    /\ mFixedHeight = 0
    /\ mTextureFormat = EGL_NO_TEXTURE
    /\ mTextureTarget = EGL_NO_TEXTURE
    /\ mSwapBehavior = "EGL_NONE"
    /\ mCurrentCount = 0
    /\ mDestroyed = FALSE
    /\ mTexture = NoTexture
    /\ defaultFramebuffer = FALSE
    /\ mImplementation = FALSE
    /\ initializeCalled = FALSE
    /\ boundSurface = [t \in Textures |-> FALSE]
    /\ deleted = FALSE
    /\ aborted = FALSE
    /\ destroyRuns = 0
    /\ calls = <<>>
    /\ lastCall = "none"
    /\ lastError = "none"
    /\ lastValue = 0
    /\ implError = "none"
    /\ implValue = 0
    /\ implSwapBehavior = "none"

\* What the caller of operation `op` gets back, and what the backend handed to
\* the operation ("none", 0: the backend was not asked).
Returns(op, error, value, backendError, backendValue) ==
    /\ lastCall' = op
    /\ lastError' = error
    /\ lastValue' = value
    /\ implError' = backendError
    /\ implValue' = backendValue
    /\ UNCHANGED aborted

\* A failed ASSERT inside operation `op`: the process ends there, the
\* operation returns nothing.
FatalAbort(op, backendError) ==
    /\ aborted' = TRUE
    /\ lastCall' = op
    /\ lastError' = "none"
    /\ lastValue' = 0
    /\ implError' = backendError
    /\ implValue' = 0

\* An operation that returns nothing and asks nothing of the backend.
ReturnsVoid(op) == Returns(op, "none", 0, "none", 0)

\* ---------------------------------------------------------------- teardown

\* Surface::~Surface, as the calls it makes on collaborators, in order.
DestructorCalls ==
    (IF mTexture # NoTexture
     THEN (IF mImplementation THEN <<"SurfaceImpl::releaseTexImage">> ELSE <<>>)
          \o <<"Texture::releaseTexImageFromSurface">>
     ELSE <<>>)
    \o (IF defaultFramebuffer THEN <<"delete Framebuffer">> ELSE <<>>)
    \o (IF mImplementation THEN <<"delete SurfaceImpl">> ELSE <<>>)

\* A destructor that drops its binding without telling the texture.
SurfaceDestructor_KeepsTextureClaim ==
    /\ boundSurface' = boundSurface
    /\ mTexture' = NoTexture
    /\ defaultFramebuffer' = FALSE
    /\ mImplementation' = FALSE

\* Surface::~Surface
SurfaceDestructor ==
    /\ boundSurface' =
          IF mTexture # NoTexture
          THEN [boundSurface EXCEPT ![mTexture] = FALSE]
          ELSE boundSurface
    /\ mTexture' = NoTexture
    /\ defaultFramebuffer' = FALSE
    /\ mImplementation' = FALSE

\* destroy() that forgets `delete this`: the object stays callable.
destroy_WithoutDelete ==
    /\ calls' =
          (IF defaultFramebuffer THEN <<"Framebuffer::destroyDefault">> ELSE <<>>)
          \o (IF mImplementation THEN <<"SurfaceImpl::destroy">> ELSE <<>>)
    /\ destroyRuns' = destroyRuns + 1
    /\ UNCHANGED <<deleted, boundSurface, mTexture, defaultFramebuffer,
                   mImplementation>>

\* destroy() that calls destroyDefault without looking at the framebuffer
\* pointer, also on a surface that was never initialized.
destroy_AlwaysDestroysFramebuffer ==
    /\ calls' =
          <<"Framebuffer::destroyDefault">>
          \o (IF mImplementation THEN <<"SurfaceImpl::destroy">> ELSE <<>>)
          \o <<"delete this">>
          \o DestructorCalls
    /\ destroyRuns' = destroyRuns + 1
    /\ deleted' = TRUE
    /\ SurfaceDestructor

\* Surface::destroy: the framebuffer's destroyDefault, the backend's destroy,
\* then `delete this`, which runs the destructor.
destroy ==
    /\ calls' =
          (IF defaultFramebuffer THEN <<"Framebuffer::destroyDefault">> ELSE <<>>)
          \o (IF mImplementation THEN <<"SurfaceImpl::destroy">> ELSE <<>>)
          \o <<"delete this">>
          \o DestructorCalls
    /\ destroyRuns' = destroyRuns + 1
    /\ deleted' = TRUE
    /\ SurfaceDestructor

\* ------------------------------------------- current count and destruction

\* setIsCurrent that tears down whenever the count reaches 0, without looking at
\* mDestroyed.
setIsCurrent_IgnoresDestroyed(isCurrent) ==
    /\ Callable
    /\ IF isCurrent
       THEN /\ mCurrentCount < MaxCount
            /\ mCurrentCount' = mCurrentCount + 1
            /\ calls' = <<>>
            /\ ReturnsVoid("setIsCurrent(true)")
            /\ UNCHANGED teardown
       ELSE IF ~ASSERT(mCurrentCount > 0)
       THEN /\ FatalAbort("setIsCurrent(false)", "none")
            /\ calls' = <<>>
            /\ UNCHANGED <<mCurrentCount, teardown>>
       ELSE /\ mCurrentCount' = mCurrentCount - 1
            /\ ReturnsVoid("setIsCurrent(false)")
            /\ IF mCurrentCount - 1 = 0
               THEN destroy
               ELSE calls' = <<>> /\ UNCHANGED teardown
    /\ UNCHANGED <<constructed, swapBehavior, mDestroyed, initializeCalled>>

\* Surface::setIsCurrent
setIsCurrent(isCurrent) ==
    /\ Callable
    /\ IF isCurrent
       THEN /\ mCurrentCount < MaxCount
            /\ mCurrentCount' = mCurrentCount + 1
            /\ calls' = <<>>
            /\ ReturnsVoid("setIsCurrent(true)")
            /\ UNCHANGED teardown
       ELSE IF ~ASSERT(mCurrentCount > 0)
       THEN /\ FatalAbort("setIsCurrent(false)", "none")
            /\ calls' = <<>>
            /\ UNCHANGED <<mCurrentCount, teardown>>
       ELSE /\ mCurrentCount' = mCurrentCount - 1
            /\ ReturnsVoid("setIsCurrent(false)")
            /\ IF mCurrentCount - 1 = 0 /\ mDestroyed
               THEN destroy
               ELSE calls' = <<>> /\ UNCHANGED teardown
    /\ UNCHANGED <<constructed, swapBehavior, mDestroyed, initializeCalled>>

\* onDestroy that tears down at once, without looking at the current count.
onDestroy_IgnoresCount ==
    /\ Callable
    /\ mDestroyed' = TRUE
    /\ ReturnsVoid("onDestroy")
    /\ destroy
    /\ UNCHANGED <<constructed, swapBehavior, mCurrentCount, initializeCalled>>

\* onDestroy that only sets the flag and leaves the teardown to a later release.
onDestroy_OnlyMarks ==
    /\ Callable
    /\ mDestroyed' = TRUE
    /\ ReturnsVoid("onDestroy")
    /\ calls' = <<>>
    /\ UNCHANGED <<constructed, swapBehavior, mCurrentCount, initializeCalled,
                   teardown>>

\* Surface::onDestroy
onDestroy ==
    /\ Callable
    /\ mDestroyed' = TRUE
    /\ ReturnsVoid("onDestroy")
    /\ IF mCurrentCount = 0
       THEN destroy
       ELSE calls' = <<>> /\ UNCHANGED teardown
    /\ UNCHANGED <<constructed, swapBehavior, mCurrentCount, initializeCalled>>

\* ---------------------------------------------------------- initialization

\* initialize that reads the swap behavior before the backend is initialized,
\* and so also when the initialization fails.
initialize_ReadsSwapBehaviorFirst ==
    /\ Callable
    /\ ~initializeCalled
    /\ initializeCalled' = TRUE
    /\ \E result \in BackendResults, behavior \in BackendSwapBehaviors :
          /\ implSwapBehavior' = behavior
          /\ mSwapBehavior' = behavior
          /\ IF result # "EGL_SUCCESS"
             THEN /\ Returns("initialize", result, 0, result, 0)
                  /\ calls' = <<"SurfaceImpl::getSwapBehavior",
                                "SurfaceImpl::initialize">>
                  /\ UNCHANGED defaultFramebuffer
             ELSE /\ defaultFramebuffer' = TRUE
                  /\ calls' = <<"SurfaceImpl::getSwapBehavior",
                                "SurfaceImpl::initialize", "createDefaultFramebuffer">>
                  /\ Returns("initialize", "EGL_SUCCESS", 0, result, 0)
    /\ UNCHANGED <<constructed, mCurrentCount, mDestroyed, mTexture,
                   mImplementation, boundSurface, deleted, destroyRuns>>

\* Surface::initialize: `behavior` is what the backend's getSwapBehavior
\* returns when asked.
initialize ==
    /\ Callable
    /\ ~initializeCalled
    /\ initializeCalled' = TRUE
    /\ \E result \in BackendResults, behavior \in BackendSwapBehaviors :
          IF result # "EGL_SUCCESS"
          THEN /\ Returns("initialize", result, 0, result, 0)
               /\ calls' = <<"SurfaceImpl::initialize">>
               /\ UNCHANGED <<swapBehavior, defaultFramebuffer>>
          ELSE /\ implSwapBehavior' = behavior
               /\ mSwapBehavior' = behavior
               /\ defaultFramebuffer' = TRUE
               /\ calls' = <<"SurfaceImpl::initialize", "SurfaceImpl::getSwapBehavior",
                             "createDefaultFramebuffer">>
               /\ Returns("initialize", "EGL_SUCCESS", 0, result, 0)
    /\ UNCHANGED <<constructed, mCurrentCount, mDestroyed, mTexture,
                   mImplementation, boundSurface, deleted, destroyRuns>>

\* ------------------------------------------------ operations on the backend

\* A forwarding operation that asks the backend a second time when the first
\* call fails, and returns the second answer.
ForwardsToBackend_RetriesOnError(op, backendCall) ==
    /\ Callable
    /\ \E first \in BackendResults, second \in BackendResults :
          IF first = "EGL_SUCCESS"
          THEN Returns(op, first, 0, first, 0) /\ calls' = <<backendCall>>
          ELSE Returns(op, second, 0, second, 0)
               /\ calls' = <<backendCall, backendCall>>
    /\ UNCHANGED <<constructed, swapBehavior, mCurrentCount, mDestroyed,
                   initializeCalled, teardown>>

\* `return mImplementation-><backendCall>(...)`: the backend is asked once and
\* its egl::Error is what the operation returns.
ForwardsToBackend(op, backendCall) ==
    /\ Callable
    /\ \E result \in BackendResults : Returns(op, result, 0, result, 0)
    /\ calls' = <<backendCall>>
    /\ UNCHANGED <<constructed, swapBehavior, mCurrentCount, mDestroyed,
                   initializeCalled, teardown>>

\* Surface::swap
swap == ForwardsToBackend("swap", "SurfaceImpl::swap")

\* Surface::swapWithDamage
swapWithDamage == ForwardsToBackend("swapWithDamage", "SurfaceImpl::swapWithDamage")

\* Surface::postSubBuffer
postSubBuffer == ForwardsToBackend("postSubBuffer", "SurfaceImpl::postSubBuffer")

\* Surface::getSyncValues
getSyncValues == ForwardsToBackend("getSyncValues", "SurfaceImpl::getSyncValues")

\* isPostSubBufferSupported that returns what the backend reports alone.
isPostSubBufferSupported_BackendOnly ==
    /\ Callable
    /\ \E supported \in BOOLEAN :
          Returns("isPostSubBufferSupported", "none",
                  IF supported THEN 1 ELSE 0, "none", IF supported THEN 1 ELSE 0)
    /\ calls' = <<"SurfaceImpl::isPostSubBufferSupported">>
    /\ UNCHANGED <<constructed, swapBehavior, mCurrentCount, mDestroyed,
                   initializeCalled, teardown>>

\* Surface::isPostSubBufferSupported: `supported` is what the backend reports
\* when asked; && asks it only when the attribute requested post-sub-buffer.
\* The bool is returned as an EGLint.
isPostSubBufferSupported ==
    /\ Callable
    /\ \E supported \in BOOLEAN :
          Returns("isPostSubBufferSupported", "none",
                  IF mPostSubBufferRequested /\ supported THEN 1 ELSE 0,
                  "none", IF supported THEN 1 ELSE 0)
    /\ calls' = IF mPostSubBufferRequested
                THEN <<"SurfaceImpl::isPostSubBufferSupported">> ELSE <<>>
    /\ UNCHANGED <<constructed, swapBehavior, mCurrentCount, mDestroyed,
                   initializeCalled, teardown>>

\* getWidth that always asks the backend.
getWidth_AlwaysBackend ==
    /\ Callable
    /\ \E width \in BackendSizes : Returns("getWidth", "none", width, "none", width)
    /\ calls' = <<"SurfaceImpl::getWidth">>
    /\ UNCHANGED <<constructed, swapBehavior, mCurrentCount, mDestroyed,
                   initializeCalled, teardown>>

\* Surface::getWidth: `width` is the size the backend reports at this call.
getWidth ==
    /\ Callable
    /\ \E width \in BackendSizes :
          Returns("getWidth", "none", IF mFixedSize THEN mFixedWidth ELSE width,
                  "none", width)
    /\ calls' = IF mFixedSize THEN <<>> ELSE <<"SurfaceImpl::getWidth">>
    /\ UNCHANGED <<constructed, swapBehavior, mCurrentCount, mDestroyed,
                   initializeCalled, teardown>>

\* Surface::getHeight
getHeight ==
    /\ Callable
    /\ \E height \in BackendSizes :
          Returns("getHeight", "none", IF mFixedSize THEN mFixedHeight ELSE height,
                  "none", height)
    /\ calls' = IF mFixedSize THEN <<>> ELSE <<"SurfaceImpl::getHeight">>
    /\ UNCHANGED <<constructed, swapBehavior, mCurrentCount, mDestroyed,
                   initializeCalled, teardown>>

\* --------------------------------------------------------- texture binding

\* bindTexImage without its ASSERT: a second bind replaces the binding.
bindTexImage_WithoutAssert(texture) ==
    /\ Callable
    /\ \E result \in BackendResults :
          IF result # "EGL_SUCCESS"
          THEN /\ Returns("bindTexImage", result, 0, result, 0)
               /\ calls' = <<"SurfaceImpl::bindTexImage">>
               /\ UNCHANGED <<mTexture, boundSurface>>
          ELSE /\ boundSurface' = [boundSurface EXCEPT ![texture] = TRUE]
               /\ mTexture' = texture
               /\ calls' = <<"SurfaceImpl::bindTexImage",
                             "Texture::bindTexImageFromSurface">>
               /\ Returns("bindTexImage", "EGL_SUCCESS", 0, result, 0)
    /\ UNCHANGED <<constructed, swapBehavior, mCurrentCount, mDestroyed,
                   initializeCalled, defaultFramebuffer, mImplementation,
                   deleted, destroyRuns>>

\* bindTexImage that notifies the texture and records the binding before it
\* looks at the backend's answer.
bindTexImage_RecordsBeforeBackend(texture) ==
    /\ Callable
    /\ IF ~ASSERT(mTexture = NoTexture)
       THEN /\ FatalAbort("bindTexImage", "none")
            /\ calls' = <<>>
            /\ UNCHANGED <<mTexture, boundSurface>>
       ELSE /\ boundSurface' = [boundSurface EXCEPT ![texture] = TRUE]
            /\ mTexture' = texture
            /\ calls' = <<"Texture::bindTexImageFromSurface",
                          "SurfaceImpl::bindTexImage">>
            /\ \E result \in BackendResults :
                  Returns("bindTexImage", result, 0, result, 0)
    /\ UNCHANGED <<constructed, swapBehavior, mCurrentCount, mDestroyed,
                   initializeCalled, defaultFramebuffer, mImplementation,
                   deleted, destroyRuns>>

\* Surface::bindTexImage
bindTexImage(texture) ==
    /\ Callable
    /\ IF ~ASSERT(mTexture = NoTexture)
       THEN /\ FatalAbort("bindTexImage", "none")
            /\ calls' = <<>>
            /\ UNCHANGED <<mTexture, boundSurface>>
       ELSE \E result \in BackendResults :
               IF result # "EGL_SUCCESS"
               THEN /\ Returns("bindTexImage", result, 0, result, 0)
                    /\ calls' = <<"SurfaceImpl::bindTexImage">>
                    /\ UNCHANGED <<mTexture, boundSurface>>
               ELSE /\ boundSurface' = [boundSurface EXCEPT ![texture] = TRUE]
                    /\ mTexture' = texture
                    /\ calls' = <<"SurfaceImpl::bindTexImage",
                                  "Texture::bindTexImageFromSurface">>
                    /\ Returns("bindTexImage", "EGL_SUCCESS", 0, result, 0)
    /\ UNCHANGED <<constructed, swapBehavior, mCurrentCount, mDestroyed,
                   initializeCalled, defaultFramebuffer, mImplementation,
                   deleted, destroyRuns>>

\* releaseTexImage that returns success when nothing is bound instead of
\* asserting.
releaseTexImage_ToleratesUnbound ==
    /\ Callable
    /\ \E result \in BackendResults :
          IF result # "EGL_SUCCESS"
          THEN /\ Returns("releaseTexImage", result, 0, result, 0)
               /\ calls' = <<"SurfaceImpl::releaseTexImage">>
               /\ UNCHANGED <<mTexture, boundSurface>>
          ELSE /\ boundSurface' =
                     IF mTexture # NoTexture
                     THEN [boundSurface EXCEPT ![mTexture] = FALSE]
                     ELSE boundSurface
               /\ mTexture' = NoTexture
               /\ calls' = <<"SurfaceImpl::releaseTexImage">>
               /\ Returns("releaseTexImage", "EGL_SUCCESS", 0, result, 0)
    /\ UNCHANGED <<constructed, swapBehavior, mCurrentCount, mDestroyed,
                   initializeCalled, defaultFramebuffer, mImplementation,
                   deleted, destroyRuns>>

\* releaseTexImage that clears the binding on both sides whatever the backend
\* answers.
releaseTexImage_ClearsOnFailure ==
    /\ Callable
    /\ \E result \in BackendResults :
          IF result = "EGL_SUCCESS" /\ ~ASSERT(mTexture # NoTexture)
          THEN /\ FatalAbort("releaseTexImage", result)
               /\ calls' = <<"SurfaceImpl::releaseTexImage">>
               /\ UNCHANGED <<mTexture, boundSurface>>
          ELSE /\ boundSurface' =
                     IF mTexture # NoTexture
                     THEN [boundSurface EXCEPT ![mTexture] = FALSE]
                     ELSE boundSurface
               /\ mTexture' = NoTexture
               /\ calls' = <<"SurfaceImpl::releaseTexImage",
                             "Texture::releaseTexImageFromSurface">>
               /\ Returns("releaseTexImage", result, 0, result, 0)
    /\ UNCHANGED <<constructed, swapBehavior, mCurrentCount, mDestroyed,
                   initializeCalled, defaultFramebuffer, mImplementation,
                   deleted, destroyRuns>>

\* releaseTexImage that tells the texture and forgets mTexture.set(nullptr).
releaseTexImage_KeepsLocalBinding ==
    /\ Callable
    /\ \E result \in BackendResults :
          IF result # "EGL_SUCCESS"
          THEN /\ Returns("releaseTexImage", result, 0, result, 0)
               /\ calls' = <<"SurfaceImpl::releaseTexImage">>
               /\ UNCHANGED <<mTexture, boundSurface>>
          ELSE IF ~ASSERT(mTexture # NoTexture)
          THEN /\ FatalAbort("releaseTexImage", result)
               /\ calls' = <<"SurfaceImpl::releaseTexImage">>
               /\ UNCHANGED <<mTexture, boundSurface>>
          ELSE /\ boundSurface' = [boundSurface EXCEPT ![mTexture] = FALSE]
               /\ mTexture' = mTexture
               /\ calls' = <<"SurfaceImpl::releaseTexImage",
                             "Texture::releaseTexImageFromSurface">>
               /\ Returns("releaseTexImage", "EGL_SUCCESS", 0, result, 0)
    /\ UNCHANGED <<constructed, swapBehavior, mCurrentCount, mDestroyed,
                   initializeCalled, defaultFramebuffer, mImplementation,
                   deleted, destroyRuns>>

\* Surface::releaseTexImage
releaseTexImage ==
    /\ Callable
    /\ \E result \in BackendResults :
          IF result # "EGL_SUCCESS"
          THEN /\ Returns("releaseTexImage", result, 0, result, 0)
               /\ calls' = <<"SurfaceImpl::releaseTexImage">>
               /\ UNCHANGED <<mTexture, boundSurface>>
          ELSE IF ~ASSERT(mTexture # NoTexture)
          THEN /\ FatalAbort("releaseTexImage", result)
               /\ calls' = <<"SurfaceImpl::releaseTexImage">>
               /\ UNCHANGED <<mTexture, boundSurface>>
          ELSE /\ boundSurface' = [boundSurface EXCEPT ![mTexture] = FALSE]
               /\ mTexture' = NoTexture
               /\ calls' = <<"SurfaceImpl::releaseTexImage",
                             "Texture::releaseTexImageFromSurface">>
               /\ Returns("releaseTexImage", "EGL_SUCCESS", 0, result, 0)
    /\ UNCHANGED <<constructed, swapBehavior, mCurrentCount, mDestroyed,
                   initializeCalled, defaultFramebuffer, mImplementation,
                   deleted, destroyRuns>>

\* releaseTexImageFromTexture that calls back into the texture.
releaseTexImageFromTexture_NotifiesTexture ==
    /\ Callable
    /\ IF ~ASSERT(mTexture # NoTexture)
       THEN /\ FatalAbort("releaseTexImageFromTexture", "none")
            /\ calls' = <<>>
            /\ UNCHANGED mTexture
       ELSE /\ mTexture' = NoTexture
            /\ calls' = <<"Texture::releaseTexImageFromSurface">>
            /\ ReturnsVoid("releaseTexImageFromTexture")
    /\ UNCHANGED <<constructed, swapBehavior, mCurrentCount, mDestroyed,
                   initializeCalled, defaultFramebuffer, mImplementation,
                   deleted, destroyRuns>>

\* Surface::releaseTexImageFromTexture: the surface's side only.
releaseTexImageFromTexture ==
    /\ Callable
    /\ calls' = <<>>
    /\ IF ~ASSERT(mTexture # NoTexture)
       THEN FatalAbort("releaseTexImageFromTexture", "none") /\ UNCHANGED mTexture
       ELSE mTexture' = NoTexture /\ ReturnsVoid("releaseTexImageFromTexture")
    /\ UNCHANGED <<constructed, swapBehavior, mCurrentCount, mDestroyed,
                   initializeCalled, defaultFramebuffer, mImplementation,
                   deleted, destroyRuns>>

\* A texture that records this surface as its source unbinds itself: it tells
\* the surface, then clears its own record.
TextureReleasesTexImage(texture) ==
    /\ boundSurface[texture]
    /\ releaseTexImageFromTexture
    /\ boundSurface' = [boundSurface EXCEPT ![texture] = FALSE]

\* releaseTexImageFromTexture called while the surface has no texture bound.
StrayReleaseTexImageFromTexture ==
    /\ mTexture = NoTexture
    /\ releaseTexImageFromTexture
    /\ UNCHANGED boundSurface

\* ------------------------------------------------------------ specification

Next ==
    \/ initialize /\ UNCHANGED otherComponents
    \/ \E isCurrent \in BOOLEAN : setIsCurrent(isCurrent) /\ UNCHANGED otherComponents
    \/ onDestroy /\ UNCHANGED otherComponents
    \/ swap /\ UNCHANGED otherComponents
    \/ swapWithDamage /\ UNCHANGED otherComponents
    \/ postSubBuffer /\ UNCHANGED otherComponents
    \/ getSyncValues /\ UNCHANGED otherComponents
    \/ isPostSubBufferSupported /\ UNCHANGED otherComponents
    \/ getWidth /\ UNCHANGED otherComponents
    \/ getHeight /\ UNCHANGED otherComponents
    \/ \E texture \in Textures : bindTexImage(texture) /\ UNCHANGED otherComponents
    \/ releaseTexImage /\ UNCHANGED otherComponents
    \/ \E texture \in Textures : TextureReleasesTexImage(texture) /\ UNCHANGED otherComponents
    \/ StrayReleaseTexImageFromTexture /\ UNCHANGED otherComponents

Spec == Init /\ [][Next]_vars

\* A release: setIsCurrent(false) on a surface that is current.
Release == mCurrentCount > 0 /\ setIsCurrent(FALSE)

\* Every setIsCurrent(true) is eventually matched: a surface that is current is
\* eventually released.
FairSpec == Spec /\ WF_vars(Release)

\* ------------------------------------------------------------ WTF::Function

\* The arguments a Function<int(int)> is called with are 1..MaxIn.
MaxIn == 2
\* How many constructions and assignments one Function goes through.
MaxStored == 3

\* Callable objects (lambdas, functors) handed over as rvalues.
Callables == {"increment", "double"}
\* Plain function pointers.
FunctionPointers == {"negate"}
Inputs == 1..MaxIn

\* What calling each stored callable with `in` returns.
CallableBody(callable, in) ==
    CASE callable = "increment" -> in + 1
      [] callable = "double" -> 2 * in
      [] callable = "negate" -> 0 - in

\* CallableWrapper<CallableType>(callable): the wrapper owns the callable.
CallableWrapper(callable) == [m_callable |-> callable]

\* CallableWrapper::call
call(wrapper, in) == CallableBody(wrapper.m_callable, in)

\* std::make_unique: a unique_ptr that owns `wrapper`.
make_unique(wrapper) == <<wrapper>>

\* A Function right after its construction from `argument`, holding `pointer`.
Constructed(argument, pointer) ==
    /\ m_callableWrapper = pointer
    /\ stored = <<argument>>
    /\ functionCall = "Function"
    /\ functionIn = 0
    /\ functionOut = 0
    /\ functionBool = FALSE
    /\ functionAborted = FALSE

\* Function() = default
FunctionDefault == Constructed("default", <<>>)

\* Function(std::nullptr_t)
FunctionNullptr == Constructed("nullptr", <<>>)

\* Function(CallableType&&)
FunctionCallable(callable) ==
    Constructed(callable, make_unique(CallableWrapper(callable)))

\* Function(FunctionType)
FunctionPointer(f) == Constructed(f, make_unique(CallableWrapper(f)))

\* The Function is alive and the process runs.
FunctionUsable == functionCall # "none" /\ ~functionAborted

\* An assignment of `argument` that leaves `pointer` in the Function.
Assigned(argument, pointer) ==
    /\ FunctionUsable
    /\ Len(stored) < MaxStored
    /\ m_callableWrapper' = pointer
    /\ stored' = Append(stored, argument)
    /\ functionCall' = "operator="
    /\ UNCHANGED <<functionIn, functionOut, functionBool, functionAborted>>

\* operator=(CallableType&&)
operatorAssignCallable(callable) ==
    Assigned(callable, make_unique(CallableWrapper(callable)))

\* operator=(FunctionType)
operatorAssignFunctionPointer(f) ==
    Assigned(f, make_unique(CallableWrapper(f)))

\* operator=(nullptr) that leaves the stored callable in place.
operatorAssignNullptr_KeepsCallable == Assigned("nullptr", m_callableWrapper)

\* operator=(std::nullptr_t)
operatorAssignNullptr == Assigned("nullptr", <<>>)

\* operator() without its ASSERT, answering 0 when nothing is stored.
operatorCall_WithoutAssert(in) ==
    /\ FunctionUsable
    /\ functionCall' = "operator()"
    /\ functionIn' = in
    /\ functionOut' =
          IF m_callableWrapper # <<>> THEN call(m_callableWrapper[1], in) ELSE 0
    /\ UNCHANGED <<m_callableWrapper, stored, functionBool, functionAborted>>

\* operator()(In...)
operatorCall(in) ==
    /\ FunctionUsable
    /\ functionCall' = "operator()"
    /\ functionIn' = in
    /\ IF ASSERT(m_callableWrapper # <<>>)
       THEN /\ functionOut' = call(m_callableWrapper[1], in)
            /\ UNCHANGED functionAborted
       ELSE /\ functionAborted' = TRUE
            /\ functionOut' = 0
    /\ UNCHANGED <<m_callableWrapper, stored, functionBool>>

\* explicit operator bool()
operatorBool ==
    /\ FunctionUsable
    /\ functionCall' = "operator bool"
    /\ functionBool' = (m_callableWrapper # <<>>)
    /\ UNCHANGED <<m_callableWrapper, stored, functionIn, functionOut,
                   functionAborted>>

FunctionInit ==
    /\ \/ FunctionDefault
       \/ FunctionNullptr
       \/ \E callable \in Callables : FunctionCallable(callable)
       \/ \E f \in FunctionPointers : FunctionPointer(f)
    /\ NoSurface
    /\ NoFetchOptions
    /\ NoRubyBase

FunctionNext ==
    \/ \E callable \in Callables :
          operatorAssignCallable(callable) /\ UNCHANGED notFunction
    \/ \E f \in FunctionPointers :
          operatorAssignFunctionPointer(f) /\ UNCHANGED notFunction
    \/ operatorAssignNullptr /\ UNCHANGED notFunction
    \/ \E in \in Inputs : operatorCall(in) /\ UNCHANGED notFunction
    \/ operatorBool /\ UNCHANGED notFunction

FunctionSpec == FunctionInit /\ [][FunctionNext]_functionVars

\* ------------------------------------------------------------- FetchOptions

\* The longest integrity string that is encoded.
MaxIntegrityLength == 1

\* The enumerations, in declaration order: an enumerator's underlying value is
\* its place in the order, counted from 0.
Destination ==
    <<"EmptyString", "Audio", "Document", "Embed", "Font", "Image", "Manifest",
      "Object", "Report", "Script", "Serviceworker", "Sharedworker", "Style",
      "Track", "Video", "Worker", "Xslt">>
Mode == <<"Navigate", "SameOrigin", "NoCors", "Cors">>
Credentials == <<"Omit", "SameOrigin", "Include">>
Cache ==
    <<"Default", "NoStore", "Reload", "NoCache", "ForceCache", "OnlyIfCached">>
Redirect == <<"Follow", "Error", "Manual">>
ReferrerPolicy ==
    <<"EmptyString", "NoReferrer", "NoReferrerWhenDowngrade", "SameOrigin",
      "Origin", "StrictOrigin", "OriginWhenCrossOrigin",
      "StrictOriginWhenCrossOrigin", "UnsafeUrl">>

\* The enumerators of `enum` that the encoded values are drawn from: its
\* first and its last.
Drawn(enum) == {enum[1], enum[Len(enum)]}

\* WTF::String: the null string, or a sequence of characters.
String(characters) == [isNull |-> FALSE, characters |-> characters]
NullString == [isNull |-> TRUE, characters |-> <<>>]
Characters == {1, 2}
Strings ==
    {NullString}
        \cup {String(c) : c \in UNION {[1..n -> Characters] : n \in 0..MaxIntegrityLength}}

\* FetchOptions(destination, mode, credentials, cache, redirect,
\* referrerPolicy, integrity, keepAlive)
FetchOptions(destination, mode, credentials, cache, redirect, referrerPolicy, integrity, keepAlive) ==
    [destination |-> destination, mode |-> mode, credentials |-> credentials,
     cache |-> cache, redirect |-> redirect, referrerPolicy |-> referrerPolicy,
     integrity |-> integrity, keepAlive |-> keepAlive]

\* FetchOptions() = default, with the default member initializers.
FetchOptionsDefault ==
    FetchOptions("EmptyString", "NoCors", "Omit", "Default", "Follow",
                 "EmptyString", NullString, FALSE)

\* The FetchOptions values that are encoded.
FetchOptionsValues ==
    {FetchOptions(d, m, c, ca, r, rp, i, k) :
        d \in Drawn(Destination), m \in Drawn(Mode), c \in Drawn(Credentials),
        ca \in Drawn(Cache), r \in Drawn(Redirect), rp \in Drawn(ReferrerPolicy),
        i \in Strings, k \in BOOLEAN}

\* encoder << enumerator: the underlying value.
encodeEnum(enum, enumerator) ==
    <<(CHOOSE i \in 1..Len(enum) : enum[i] = enumerator) - 1>>

\* encoder << String: the length (-1 for the null string), then the characters.
encodeString(string) ==
    IF string.isNull THEN <<0 - 1>>
    ELSE <<Len(string.characters)>> \o string.characters

\* encoder << bool
encodeBool(b) == <<IF b THEN 1 ELSE 0>>

\* FetchOptions::encode that writes mode before destination.
encode_ModeFirst(this) ==
    encodeEnum(Mode, this.mode)
    \o encodeEnum(Destination, this.destination)
    \o encodeEnum(Credentials, this.credentials)
    \o encodeEnum(Cache, this.cache)
    \o encodeEnum(Redirect, this.redirect)
    \o encodeEnum(ReferrerPolicy, this.referrerPolicy)
    \o encodeString(this.integrity)
    \o encodeBool(this.keepAlive)

\* FetchOptions::encode: what the encoder is given, in order.
encode(this) ==
    encodeEnum(Destination, this.destination)
    \o encodeEnum(Mode, this.mode)
    \o encodeEnum(Credentials, this.credentials)
    \o encodeEnum(Cache, this.cache)
    \o encodeEnum(Redirect, this.redirect)
    \o encodeEnum(ReferrerPolicy, this.referrerPolicy)
    \o encodeString(this.integrity)
    \o encodeBool(this.keepAlive)

\* decoder.decode(enumerator): reads one value and accepts it when it is the
\* underlying value of an enumerator listed in the EnumTraits of `enum`.
decodeEnum(enum, data, at) ==
    IF at <= Len(data) /\ data[at] \in 0..(Len(enum) - 1)
    THEN [ok |-> TRUE, value |-> enum[data[at] + 1], next |-> at + 1]
    ELSE [ok |-> FALSE, value |-> enum[1], next |-> at]

\* decoder.decode(String): reads the length, then that many characters.
decodeString(data, at) ==
    IF at > Len(data)
    THEN [ok |-> FALSE, value |-> NullString, next |-> at]
    ELSE IF data[at] = 0 - 1
    THEN [ok |-> TRUE, value |-> NullString, next |-> at + 1]
    ELSE IF data[at] >= 0 /\ at + data[at] <= Len(data)
    THEN [ok |-> TRUE, value |-> String(SubSeq(data, at + 1, at + data[at])),
          next |-> at + data[at] + 1]
    ELSE [ok |-> FALSE, value |-> NullString, next |-> at]

\* decoder.decode(bool)
decodeBool(data, at) ==
    IF at <= Len(data) /\ data[at] \in {0, 1}
    THEN [ok |-> TRUE, value |-> (data[at] = 1), next |-> at + 1]
    ELSE [ok |-> FALSE, value |-> FALSE, next |-> at]

\* FetchOptions::decode that writes each field to the output as soon as it is
\* decoded.
decode_AssignsAsItGoes(data, output) ==
    LET destination == decodeEnum(Destination, data, 1)
        mode == decodeEnum(Mode, data, destination.next)
        credentials == decodeEnum(Credentials, data, mode.next)
        cache == decodeEnum(Cache, data, credentials.next)
        redirect == decodeEnum(Redirect, data, cache.next)
        referrerPolicy == decodeEnum(ReferrerPolicy, data, redirect.next)
        integrity == decodeString(data, referrerPolicy.next)
        keepAlive == decodeBool(data, integrity.next)
        ok1 == destination.ok
        ok2 == ok1 /\ mode.ok
        ok3 == ok2 /\ credentials.ok
        ok4 == ok3 /\ cache.ok
        ok5 == ok4 /\ redirect.ok
        ok6 == ok5 /\ referrerPolicy.ok
        ok7 == ok6 /\ integrity.ok
        ok8 == ok7 /\ keepAlive.ok
    IN  [returned |-> ok8,
         options |->
            FetchOptions(
                IF ok1 THEN destination.value ELSE output.destination,
                IF ok2 THEN mode.value ELSE output.mode,
                IF ok3 THEN credentials.value ELSE output.credentials,
                IF ok4 THEN cache.value ELSE output.cache,
                IF ok5 THEN redirect.value ELSE output.redirect,
                IF ok6 THEN referrerPolicy.value ELSE output.referrerPolicy,
                IF ok7 THEN integrity.value ELSE output.integrity,
                IF ok8 THEN keepAlive.value ELSE output.keepAlive)]

\* FetchOptions::decode(decoder, options): what it returns and what it leaves
\* in the output. Each field is decoded into a local; the first failure
\* returns false; the output is assigned after the last field.
decode(data, output) ==
    LET destination == decodeEnum(Destination, data, 1)
        mode == decodeEnum(Mode, data, destination.next)
        credentials == decodeEnum(Credentials, data, mode.next)
        cache == decodeEnum(Cache, data, credentials.next)
        redirect == decodeEnum(Redirect, data, cache.next)
        referrerPolicy == decodeEnum(ReferrerPolicy, data, redirect.next)
        integrity == decodeString(data, referrerPolicy.next)
        keepAlive == decodeBool(data, integrity.next)
    IN  IF ~destination.ok THEN [returned |-> FALSE, options |-> output]
        ELSE IF ~mode.ok THEN [returned |-> FALSE, options |-> output]
        ELSE IF ~credentials.ok THEN [returned |-> FALSE, options |-> output]
        ELSE IF ~cache.ok THEN [returned |-> FALSE, options |-> output]
        ELSE IF ~redirect.ok THEN [returned |-> FALSE, options |-> output]
        ELSE IF ~referrerPolicy.ok THEN [returned |-> FALSE, options |-> output]
        ELSE IF ~integrity.ok THEN [returned |-> FALSE, options |-> output]
        ELSE IF ~keepAlive.ok THEN [returned |-> FALSE, options |-> output]
        ELSE [returned |-> TRUE,
              options |->
                 FetchOptions(destination.value, mode.value, credentials.value,
                              cache.value, redirect.value, referrerPolicy.value,
                              integrity.value, keepAlive.value)]

\* The field of an encoded FetchOptions that the value at place `at` belongs to.
FieldAt(buffer, at) ==
    IF at <= 6 THEN at ELSE IF at < Len(buffer) THEN 7 ELSE 8

\* The data a decoder may hold, given what has been encoded: the encoded
\* data itself, that data cut short, and that data with the value of an
\* enumeration replaced by one that is no enumerator or with the length of
\* the string replaced by one that exceeds the data. `field` is the first
\* field that cannot be decoded from the data (0: every field can).
DecoderInputs(buffer) ==
    IF buffer = <<>> THEN {[data |-> <<>>, field |-> 1]}
    ELSE {[data |-> buffer, field |-> 0]}
         \cup {[data |-> SubSeq(buffer, 1, n), field |-> FieldAt(buffer, n + 1)] :
                 n \in 0..(Len(buffer) - 1)}
         \cup {[data |-> [buffer EXCEPT ![at] = Len(Destination)], field |-> at] :
                 at \in 1..6}
         \cup {[data |-> [buffer EXCEPT ![7] = Len(buffer)], field |-> 7]}

\* A call of thisOptions.encode(encoder) on an encoder that holds nothing yet.
Encode ==
    /\ fetchCall # "none"
    /\ encoderBuffer = <<>>
    /\ encoderBuffer' = encoderBuffer \o encode(thisOptions)
    /\ fetchCall' = "encode"
    /\ UNCHANGED <<thisOptions, decoderBuffer, failingField, options,
                   decodeReturned>>

\* A call of FetchOptions::decode(decoder, options) on a decoder that holds
\* `input.data`.
Decode(input) ==
    /\ fetchCall # "none"
    /\ decoderBuffer' = input.data
    /\ failingField' = input.field
    /\ decodeReturned' = decode(input.data, options).returned
    /\ options' = decode(input.data, options).options
    /\ fetchCall' = "decode"
    /\ UNCHANGED <<thisOptions, encoderBuffer>>

FetchInit ==
    /\ thisOptions \in FetchOptionsValues
    /\ encoderBuffer = <<>>
    /\ decoderBuffer = <<>>
    /\ failingField = 0
    /\ options = FetchOptionsDefault
    /\ decodeReturned = FALSE
    /\ fetchCall = "FetchOptions"
    /\ NoSurface
    /\ NoFunction
    /\ NoRubyBase

FetchNext ==
    \/ Encode /\ UNCHANGED notFetchOptions
    \/ \E input \in DecoderInputs(encoderBuffer) :
          Decode(input) /\ UNCHANGED notFetchOptions

FetchSpec == FetchInit /\ [][FetchNext]_fetchVars

\* ----------------------------------------------------------- RenderRubyBase

\* The most direct children a base starts with.
MaxChildren == 2

\* A render object: its identity, whether it is inline, whether it is an
\* anonymous block, whether its own children are inline, and its children
\* (identities; the model looks one level below a base's children).
RenderObject(id, isInline, isAnonymousBlock, childrenInline, children) ==
    [id |-> id, isInline |-> isInline, isAnonymousBlock |-> isAnonymousBlock,
     childrenInline |-> childrenInline, children |-> children]

InlineObject(id) == RenderObject(id, TRUE, FALSE, TRUE, <<>>)
Block(id) == RenderObject(id, FALSE, FALSE, TRUE, <<>>)

\* RenderBlock::createAnonymousBlock: a new block whose children are inline.
createAnonymousBlock(id) == RenderObject(id, FALSE, TRUE, TRUE, <<>>)

\* The kinds of block-level child a base starts with: a block of its own, an
\* anonymous block around one inline object, an anonymous block around a block.
BlockKinds == {"block", "anonymousInline", "anonymousBlock"}

\* The child of kind `kind` at place `i` of the base whose identities start
\* after `offset`; the object inside an anonymous block gets the next identity.
ChildOfKind(kind, offset, i) ==
    CASE kind = "inline" -> InlineObject(offset + 2 * i)
      [] kind = "block" -> Block(offset + 2 * i)
      [] kind = "anonymousInline" ->
            RenderObject(offset + 2 * i, FALSE, TRUE, TRUE, <<offset + 2 * i + 1>>)
      [] kind = "anonymousBlock" ->
            RenderObject(offset + 2 * i, FALSE, TRUE, FALSE, <<offset + 2 * i + 1>>)

\* A RenderRubyBase (a RenderBlockFlow): childrenInline(), its children, and
\* whether it is marked as needing layout.
RubyBase(childrenInline, children, needsLayout) ==
    [childrenInline |-> childrenInline, children |-> children,
     needsLayout |-> needsLayout]

\* The bases the model starts from: up to MaxChildren children, all inline or
\* all block-level; a base without children may say either of its children.
RubyBases(offset) ==
    {RubyBase(TRUE, [i \in 1..n |-> ChildOfKind("inline", offset, i)], FALSE) :
        n \in 0..MaxChildren}
    \cup {RubyBase(FALSE, [i \in 1..Len(kinds) |-> ChildOfKind(kinds[i], offset, i)],
                   FALSE) :
            kinds \in UNION {[1..n -> BlockKinds] : n \in 0..MaxChildren}}

\* firstChild() ... lastChild() as identities.
ChildIds(children) == [i \in 1..Len(children) |-> children[i].id]

\* Every identity in use: the bases' children, what is inside them, and the
\* objects already destroyed.
UsedIds(this, to, destroyed) ==
    {0} \cup destroyed
        \cup {this.children[i].id : i \in 1..Len(this.children)}
        \cup {to.children[i].id : i \in 1..Len(to.children)}
        \cup UNION {{this.children[i].children[j] :
                        j \in 1..Len(this.children[i].children)} :
                    i \in 1..Len(this.children)}
        \cup UNION {{to.children[i].children[j] :
                        j \in 1..Len(to.children[i].children)} :
                    i \in 1..Len(to.children)}

\* The identity of a newly created render object.
NewId(this, to, destroyed) ==
    1 + CHOOSE m \in UsedIds(this, to, destroyed) :
            \A n \in UsedIds(this, to, destroyed) : n <= m

\* Where the loop of moveChildrenTo(to, firstChild(), endChild) stops: at
\* endChild, or after the last child when endChild is null or is no child.
EndOfMove(children, endChild) ==
    IF \E i \in 1..Len(children) : children[i].id = endChild
    THEN CHOOSE i \in 1..Len(children) : children[i].id = endChild
    ELSE Len(children) + 1

\* What a move leaves behind: the two bases and the objects it destroyed.
Moved(this, to, destroyed) ==
    [thisBase |-> this, toBase |-> to, destroyed |-> destroyed]

\* `base` with `objects` added after the children of its last child.
IntoLastChild(base, objects) ==
    [base EXCEPT !.children[Len(base.children)].children = @ \o objects]

\* moveInlineChildren that puts the inline children next to the block-level
\* children of the target.
moveInlineChildren_WithoutWrapping(this, to, endChild) ==
    IF this.children = <<>> THEN Moved(this, to, {})
    ELSE LET end == EndOfMove(this.children, endChild)
         IN  Moved([this EXCEPT !.children = SubSeq(@, end, Len(@))],
                   [to EXCEPT !.children = @ \o SubSeq(this.children, 1, end - 1)],
                   {})

\* RenderRubyBase::moveInlineChildren(toBase, beforeChild)
moveInlineChildren(this, to, endChild) ==
    IF this.children = <<>> THEN Moved(this, to, {})
    ELSE LET end == EndOfMove(this.children, endChild)
             moved == SubSeq(this.children, 1, end - 1)
             rest == [this EXCEPT !.children = SubSeq(@, end, Len(@))]
             reuse ==
                 /\ to.children # <<>>
                 /\ to.children[Len(to.children)].isAnonymousBlock
                 /\ to.children[Len(to.children)].childrenInline
             withBlock ==
                 IF reuse THEN to
                 ELSE [to EXCEPT !.children =
                          Append(@, createAnonymousBlock(NewId(this, to, {})))]
         IN  IF to.childrenInline
             THEN Moved(rest, [to EXCEPT !.children = @ \o moved], {})
             ELSE Moved(rest, IntoLastChild(withBlock, ChildIds(moved)), {})

\* RenderBlock::makeChildrenNonInline: the inline children, if any, end up
\* inside one new anonymous block.
makeChildrenNonInline(base, id) ==
    IF base.children = <<>> THEN [base EXCEPT !.childrenInline = FALSE]
    ELSE [base EXCEPT
            !.childrenInline = FALSE,
            !.children =
               <<RenderObject(id, FALSE, TRUE, TRUE, ChildIds(base.children))>>]

\* RenderRubyBase::moveBlockChildren(toBase, beforeChild)
moveBlockChildren(this, to, endChild) ==
    IF this.children = <<>> THEN Moved(this, to, {})
    ELSE LET target ==
                 IF to.childrenInline
                 THEN makeChildrenNonInline(to, NewId(this, to, {}))
                 ELSE to
             firstChildHere == this.children[1]
             merge ==
                 /\ firstChildHere.isAnonymousBlock
                 /\ firstChildHere.childrenInline
                 /\ target.children # <<>>
                 /\ target.children[Len(target.children)].isAnonymousBlock
                 /\ target.children[Len(target.children)].childrenInline
             \* anonBlockHere->moveAllChildrenTo(anonBlockThere), then
             \* anonBlockHere->removeFromParentAndDestroy()
             here == IF merge THEN Tail(this.children) ELSE this.children
             there ==
                 IF merge THEN IntoLastChild(target, firstChildHere.children)
                 ELSE target
             \* a destroyed beforeChild is no child any more: the loop of
             \* moveChildrenTo never meets it
             end == EndOfMove(here, endChild)
         IN  Moved([this EXCEPT !.children = SubSeq(here, end, Len(here))],
                   [there EXCEPT !.children = @ \o SubSeq(here, 1, end - 1)],
                   IF merge THEN {firstChildHere.id} ELSE {})

\* setNeedsLayoutAndPrefWidthsRecalc()
setNeedsLayoutAndPrefWidthsRecalc(base) == [base EXCEPT !.needsLayout = TRUE]

\* RenderRubyBase::moveChildren(toBase, beforeChild), for a beforeChild that is
\* null or a child of this base.
moveChildren(endChild) ==
    /\ rubyCall # "none"
    /\ endChild \in {0} \cup {thisBase.children[i].id : i \in 1..Len(thisBase.children)}
    /\ LET moved ==
               IF thisBase.childrenInline
               THEN moveInlineChildren(thisBase, toBase, endChild)
               ELSE moveBlockChildren(thisBase, toBase, endChild)
       IN  /\ thisBase' = setNeedsLayoutAndPrefWidthsRecalc(moved.thisBase)
           /\ toBase' = setNeedsLayoutAndPrefWidthsRecalc(moved.toBase)
           /\ destroyedObjects' = destroyedObjects \cup moved.destroyed
    /\ beforeChild' = endChild
    /\ thisBaseBefore' = thisBase
    /\ toBaseBefore' = toBase
    /\ rubyCall' = "moveChildren"

\* Two bases next to each other; the identities of their children differ.
RubyInit ==
    /\ thisBase \in RubyBases(0)
    /\ toBase \in RubyBases(10)
    /\ beforeChild = 0
    /\ destroyedObjects = {}
    /\ thisBaseBefore = thisBase
    /\ toBaseBefore = toBase
    /\ rubyCall = "RenderRubyBase"
    /\ NoSurface
    /\ NoFunction
    /\ NoFetchOptions

RubyNext ==
    \E endChild \in 0..(2 * MaxChildren + 1) :
       moveChildren(endChild) /\ UNCHANGED notRubyBase

RubySpec == RubyInit /\ [][RubyNext]_rubyVars

\* ------------------------------------------------------------------ claims

\* The calls of `log` that are among `names`, in order.
RECURSIVE Restrict(_, _)
Restrict(log, names) ==
    IF log = <<>> THEN <<>>
    ELSE (IF Head(log) \in names THEN <<Head(log)>> ELSE <<>>)
         \o Restrict(Tail(log), names)

\* The place of the first `name` in `log`, 0 when it is not there.
IndexOf(log, name) ==
    IF \E i \in 1..Len(log) : log[i] = name
    THEN CHOOSE i \in 1..Len(log) :
            log[i] = name /\ \A j \in 1..(i - 1) : log[j] # name
    ELSE 0

\* C1: the surface is torn down (destroy() has run, the object is deleted) only
\* in a state where onDestroy has been called and the current count is zero.
C1_NoTeardownWhileLiveOrCurrent ==
    (deleted \/ destroyRuns > 0) => (mDestroyed /\ mCurrentCount = 0)

\* C1 witness: the deferred teardown, run by the last setIsCurrent(false).
C1_Witness ==
    deleted /\ destroyRuns = 1 /\ lastCall = "setIsCurrent(false)"

\* C2: destroy() never runs a second time, the object is deleted exactly when
\* it has run once, and it has run once as soon as the surface is destroyed and
\* not current.
C2_TeardownExactlyOnce ==
    /\ destroyRuns <= 1
    /\ deleted <=> (destroyRuns = 1)
    /\ (mDestroyed /\ mCurrentCount = 0) => (destroyRuns = 1)

\* C2 witness: onDestroy at count 0 has torn the surface down in the call.
C2_Witness ==
    lastCall = "onDestroy" /\ deleted /\ destroyRuns = 1 /\ mCurrentCount = 0

\* C3: once onDestroy has been called the surface is eventually deleted (unless
\* a contract violation ends the process first), releases being fair.
C3_DestroyedLeadsToDeleted == mDestroyed ~> (deleted \/ aborted)

\* C4: onDestroy sets the destroyed flag; at count 0 it tears down in the same
\* call; at count > 0 it tears nothing down and leaves the count, the texture
\* binding, the default framebuffer and the backend as they were.
C4_OnDestroyEffect ==
    [][lastCall' = "onDestroy" =>
          /\ mDestroyed'
          /\ mCurrentCount' = mCurrentCount
          /\ (mCurrentCount = 0) =>
                (deleted' /\ destroyRuns' = destroyRuns + 1)
          /\ (mCurrentCount > 0) =>
                /\ ~deleted'
                /\ destroyRuns' = destroyRuns
                /\ mTexture' = mTexture
                /\ boundSurface' = boundSurface
                /\ defaultFramebuffer' = defaultFramebuffer
                /\ mImplementation' = mImplementation
                /\ calls' = <<>>]_vars

\* C4 witness: Destroyed-pending, with a texture bound and a framebuffer.
C4_Witness ==
    /\ lastCall = "onDestroy"
    /\ mDestroyed /\ mCurrentCount > 0 /\ ~deleted
    /\ mTexture # NoTexture /\ defaultFramebuffer /\ mImplementation

\* C5: the count is never negative; setIsCurrent(false) at count 0 is a fatal
\* abort that leaves the count; otherwise it takes one from the count and tears
\* down if and only if the new count is 0 and the destroyed flag is set.
C5_SetIsCurrentFalseEffect ==
    /\ [](mCurrentCount >= 0)
    /\ [][lastCall' = "setIsCurrent(false)" =>
             IF mCurrentCount = 0
             THEN aborted' /\ mCurrentCount' = 0 /\ ~deleted'
                  /\ destroyRuns' = destroyRuns
             ELSE /\ ~aborted'
                  /\ mCurrentCount' = mCurrentCount - 1
                  /\ mDestroyed' = mDestroyed
                  /\ deleted' <=> (mCurrentCount' = 0 /\ mDestroyed)
                  /\ destroyRuns' =
                        destroyRuns
                        + (IF mCurrentCount' = 0 /\ mDestroyed THEN 1 ELSE 0)]_vars

\* C5 witness: the last release of a surface that is not destroyed: it stays
\* live.
C5_Witness ==
    /\ lastCall = "setIsCurrent(false)"
    /\ mCurrentCount = 0 /\ ~mDestroyed /\ ~deleted /\ ~aborted

\* C6: at most one texture records the surface as its source, and bindTexImage
\* on a surface that has a texture bound is a fatal abort that leaves the
\* binding as it was.
C6_SingleBinding ==
    /\ [](Cardinality({t \in Textures : boundSurface[t]}) <= 1)
    /\ [][(lastCall' = "bindTexImage" /\ mTexture # NoTexture) =>
             /\ aborted'
             /\ mTexture' = mTexture
             /\ boundSurface' = boundSurface
             /\ calls' = <<>>]_vars

\* C6 witness: a second bindTexImage has been rejected.
C6_Witness ==
    aborted /\ lastCall = "bindTexImage" /\ mTexture # NoTexture

\* C7 as claimed: releaseTexImage with no texture bound is a fatal abort
\* whatever the backend returns.
C7_UnboundReleaseAlwaysAborts ==
    [][(lastCall' = "releaseTexImage" /\ mTexture = NoTexture) => aborted']_vars

\* C7 amended: releaseTexImage with no texture bound asks the backend first;
\* if the backend fails its error is returned and nothing aborts; if the
\* backend succeeds the call is a fatal abort.  It never returns success.
C7_UnboundReleaseAbortsAfterBackend ==
    [][(lastCall' = "releaseTexImage" /\ mTexture = NoTexture) =>
          /\ calls' = <<"SurfaceImpl::releaseTexImage">>
          /\ mTexture' = NoTexture
          /\ boundSurface' = boundSurface
          /\ IF implError' = "EGL_SUCCESS"
             THEN aborted' /\ lastError' = "none"
             ELSE ~aborted' /\ lastError' = implError'
                  /\ lastError' \in BackendErrors]_vars

\* C7 witness: the backend released, nothing was bound, the process aborted.
C7_Witness ==
    /\ aborted /\ lastCall = "releaseTexImage"
    /\ implError = "EGL_SUCCESS" /\ mTexture = NoTexture

\* C8: teardown releases the bound texture's claim first, then runs the
\* framebuffer's destroyDefault, then the backend's destroy, then releases the
\* object; no backend operation follows the backend's destroy.
C8_TeardownOrder ==
    deleted =>
        /\ Restrict(calls, {"Texture::releaseTexImageFromSurface",
                            "Framebuffer::destroyDefault", "SurfaceImpl::destroy",
                            "delete this"})
              \in {<<"Texture::releaseTexImageFromSurface",
                     "Framebuffer::destroyDefault", "SurfaceImpl::destroy",
                     "delete this">>,
                   <<"Texture::releaseTexImageFromSurface", "SurfaceImpl::destroy",
                     "delete this">>,
                   <<"Framebuffer::destroyDefault", "SurfaceImpl::destroy",
                     "delete this">>,
                   <<"SurfaceImpl::destroy", "delete this">>}
        /\ \A i \in 1..Len(calls) :
              calls[i] = "SurfaceImpl::releaseTexImage" =>
                 i < IndexOf(calls, "SurfaceImpl::destroy")

\* C9: isPostSubBufferSupported returns true exactly when the construction
\* attribute requested post-sub-buffer and the backend reports support.
C9_PostSubBufferSupported ==
    lastCall = "isPostSubBufferSupported" =>
        /\ lastValue \in {0, 1}
        /\ (lastValue = 1) <=>
              /\ get(attributes, "EGL_POST_SUB_BUFFER_SUPPORTED_NV", EGL_FALSE)
                    = EGL_TRUE
              /\ implValue = 1

\* C9 witness: requested, and the backend does not support it: false.
C9_Witness ==
    /\ lastCall = "isPostSubBufferSupported"
    /\ "EGL_POST_SUB_BUFFER_SUPPORTED_NV" \in DOMAIN attributes
    /\ attributes["EGL_POST_SUB_BUFFER_SUPPORTED_NV"] = EGL_TRUE
    /\ implValue = 0 /\ lastValue = 0

\* C10: a fixed-size surface reports the width and height attributes of its
\* construction (0 for one that is absent) whatever the backend reports; any
\* other surface reports what the backend reports at the call.
C10_FixedSize ==
    LET fixed == get(attributes, "EGL_FIXED_SIZE_ANGLE", EGL_FALSE) = EGL_TRUE
    IN  /\ lastCall = "getWidth" =>
              lastValue = IF fixed THEN get(attributes, "EGL_WIDTH", 0)
                          ELSE implValue
        /\ lastCall = "getHeight" =>
              lastValue = IF fixed THEN get(attributes, "EGL_HEIGHT", 0)
                          ELSE implValue

\* C10 witness: a fixed-size surface, current and with a texture bound, asked
\* its width while the backend reports another size.
C10_Witness ==
    /\ lastCall = "getWidth"
    /\ get(attributes, "EGL_FIXED_SIZE_ANGLE", EGL_FALSE) = EGL_TRUE
    /\ "EGL_WIDTH" \in DOMAIN attributes
    /\ lastValue = attributes["EGL_WIDTH"] /\ implValue # lastValue
    /\ mCurrentCount > 0 /\ mTexture # NoTexture

\* How many times `name` is in `log`.
Count(log, name) == Cardinality({i \in 1..Len(log) : log[i] = name})

\* The operations that only forward to the backend, with the backend call of
\* each.
ForwardedCall ==
    [swap |-> "SurfaceImpl::swap",
     swapWithDamage |-> "SurfaceImpl::swapWithDamage",
     postSubBuffer |-> "SurfaceImpl::postSubBuffer",
     getSyncValues |-> "SurfaceImpl::getSyncValues"]

\* C11: a window surface has texture format and target "no texture" whatever
\* the attribute map holds; a pbuffer or pixmap surface has those of the
\* attribute map, each "no texture" when absent.
C11_TextureAttributes ==
    IF mType = "EGL_WINDOW_BIT"
    THEN mTextureFormat = EGL_NO_TEXTURE /\ mTextureTarget = EGL_NO_TEXTURE
    ELSE /\ mTextureFormat = get(attributes, "EGL_TEXTURE_FORMAT", EGL_NO_TEXTURE)
         /\ mTextureTarget = get(attributes, "EGL_TEXTURE_TARGET", EGL_NO_TEXTURE)

\* C11 witness: a window surface built from a map that gives a texture format
\* and a texture target, after it has been used.
C11_Witness ==
    /\ mType = "EGL_WINDOW_BIT"
    /\ {"EGL_TEXTURE_FORMAT", "EGL_TEXTURE_TARGET"} \subseteq DOMAIN attributes
    /\ attributes["EGL_TEXTURE_FORMAT"] # EGL_NO_TEXTURE
    /\ mTextureFormat = EGL_NO_TEXTURE /\ mTextureTarget = EGL_NO_TEXTURE
    /\ lastCall = "swap"

\* C12: bindTexImage with no texture bound asks the backend once; if the
\* backend succeeds one texture is told and recorded as bound and success is
\* returned; if it fails its error is returned, no texture is told and the
\* surface still has none bound.
C12_BindTexImageEffect ==
    [][(lastCall' = "bindTexImage" /\ mTexture = NoTexture) =>
          /\ ~aborted'
          /\ implError' \in BackendResults
          /\ lastError' = implError'
          /\ IF implError' = "EGL_SUCCESS"
             THEN /\ mTexture' \in Textures
                  /\ boundSurface' = [boundSurface EXCEPT ![mTexture'] = TRUE]
                  /\ calls' = <<"SurfaceImpl::bindTexImage",
                                "Texture::bindTexImageFromSurface">>
             ELSE /\ mTexture' = NoTexture
                  /\ boundSurface' = boundSurface
                  /\ calls' = <<"SurfaceImpl::bindTexImage">>]_vars

\* C12: the texture recorded by a successful bindTexImage is the one supplied.
C12_BindsSuppliedTexture ==
    [][\A texture \in Textures :
          (bindTexImage(texture) /\ lastError' = "EGL_SUCCESS") =>
             (mTexture' = texture /\ boundSurface'[texture])]_vars

\* C12 as one formula.
C12_BindTexImage == C12_BindTexImageEffect /\ C12_BindsSuppliedTexture

\* C12 witness: the backend failed the bind: its error came back and nothing
\* is bound.
C12_Witness ==
    /\ lastCall = "bindTexImage" /\ ~aborted
    /\ lastError = "EGL_CONTEXT_LOST" /\ implError = "EGL_CONTEXT_LOST"
    /\ mTexture = NoTexture /\ \A t \in Textures : ~boundSurface[t]

\* C13: releaseTexImage with a texture bound asks the backend first; if it
\* succeeds the texture is told and both sides of the binding are cleared; if
\* it fails its error is returned and both sides stay as they were.
C13_ReleaseTexImageEffect ==
    [][(lastCall' = "releaseTexImage" /\ mTexture # NoTexture) =>
          /\ ~aborted'
          /\ implError' \in BackendResults
          /\ lastError' = implError'
          /\ Head(calls') = "SurfaceImpl::releaseTexImage"
          /\ IF implError' = "EGL_SUCCESS"
             THEN /\ mTexture' = NoTexture
                  /\ boundSurface' = [boundSurface EXCEPT ![mTexture] = FALSE]
                  /\ calls' = <<"SurfaceImpl::releaseTexImage",
                                "Texture::releaseTexImageFromSurface">>
             ELSE /\ mTexture' = mTexture
                  /\ boundSurface' = boundSurface
                  /\ calls' = <<"SurfaceImpl::releaseTexImage">>]_vars

\* C13 witness: the backend failed the release: the binding is still there on
\* both sides.
C13_Witness ==
    /\ lastCall = "releaseTexImage" /\ ~aborted
    /\ lastError = "EGL_BAD_ALLOC" /\ implError = "EGL_BAD_ALLOC"
    /\ mTexture # NoTexture /\ boundSurface[mTexture]

\* C14: initialize returns the backend's error when the backend fails, the
\* swap behavior then stays EGL_NONE and the framebuffer null; when the backend
\* succeeds the backend's swap behavior is read, then the framebuffer is
\* created, and it is non-null when success is returned.
C14_InitializeEffect ==
    [][lastCall' = "initialize" =>
          /\ implError' \in BackendResults
          /\ lastError' = implError'
          /\ IF implError' # "EGL_SUCCESS"
             THEN /\ mSwapBehavior' = "EGL_NONE"
                  /\ mSwapBehavior' = mSwapBehavior
                  /\ ~defaultFramebuffer'
                  /\ calls' = <<"SurfaceImpl::initialize">>
             ELSE /\ implSwapBehavior' \in BackendSwapBehaviors
                  /\ mSwapBehavior' = implSwapBehavior'
                  /\ defaultFramebuffer'
                  /\ calls' = <<"SurfaceImpl::initialize",
                                "SurfaceImpl::getSwapBehavior",
                                "createDefaultFramebuffer">>]_vars

\* C14 witness: the backend's initialization failed.
C14_Witness ==
    /\ lastCall = "initialize" /\ lastError = "EGL_BAD_ALLOC"
    /\ mSwapBehavior = "EGL_NONE" /\ ~defaultFramebuffer

\* C15: swap, swapWithDamage, postSubBuffer and getSyncValues ask the backend
\* once, return what it returns, and leave the count, the destroyed flag, the
\* texture binding, the fixed size and the swap behavior as they were.
C15_ForwardingEffect ==
    [][lastCall' \in DOMAIN ForwardedCall =>
          /\ calls' = <<ForwardedCall[lastCall']>>
          /\ implError' \in BackendResults
          /\ lastError' = implError'
          /\ ~aborted' /\ ~deleted'
          /\ UNCHANGED <<mCurrentCount, mDestroyed, mTexture, boundSurface,
                         mFixedSize, mFixedWidth, mFixedHeight, mSwapBehavior,
                         destroyRuns>>]_vars

\* C15 witness: a swap that the backend failed, on a current, destroyed
\* surface with a texture bound.
C15_Witness ==
    /\ lastCall = "swap" /\ lastError = "EGL_CONTEXT_LOST"
    /\ calls = <<"SurfaceImpl::swap">>
    /\ mCurrentCount > 0 /\ mDestroyed /\ mTexture # NoTexture

\* C16: a surface that has not been deleted has a count >= 0 and, if its
\* destroyed flag is set, a count > 0: it is Live(count = 0), Live(count > 0)
\* or Destroyed-pending(count > 0).
C16_LifecycleStates ==
    ~deleted =>
        /\ mCurrentCount >= 0
        /\ mDestroyed => mCurrentCount > 0

\* C16 witness: Destroyed-pending.
C16_Witness ==
    ~deleted /\ ~aborted /\ mDestroyed /\ mCurrentCount > 0

\* C17 as claimed: setIsCurrent(true) is taken from Live states only (the
\* destroyed flag is not set), adds one to the count, tears nothing down and
\* changes nothing else.
C17_SetIsCurrentTrueFromLiveOnly ==
    [][lastCall' = "setIsCurrent(true)" =>
          /\ ~mDestroyed
          /\ mCurrentCount' = mCurrentCount + 1
          /\ ~deleted' /\ ~aborted'
          /\ calls' = <<>>
          /\ UNCHANGED <<constructed, swapBehavior, mDestroyed, initializeCalled,
                         teardown>>]_vars

\* C18: releaseTexImageFromTexture with a texture bound clears the surface's
\* binding, calls neither the texture nor the backend, and leaves the count
\* and the destroyed flag; with no texture bound it is a fatal abort.
C18_ReleaseFromTextureEffect ==
    [][lastCall' = "releaseTexImageFromTexture" =>
          /\ calls' = <<>>
          /\ UNCHANGED <<mCurrentCount, mDestroyed, defaultFramebuffer,
                         mImplementation, deleted, destroyRuns, swapBehavior>>
          /\ mTexture' = NoTexture
          /\ aborted' <=> (mTexture = NoTexture)
          /\ \A t \in Textures : boundSurface'[t] => boundSurface[t]]_vars

\* C18 witness: the bound texture has unbound itself from a current, destroyed
\* surface.
C18_Witness ==
    /\ lastCall = "releaseTexImageFromTexture" /\ ~aborted
    /\ mTexture = NoTexture /\ mCurrentCount > 0 /\ mDestroyed

\* C19: the teardown of a surface with a texture bound tells that texture
\* once, and no texture records a deleted surface as its source.
C19_TeardownReleasesTexture ==
    /\ [](deleted => \A t \in Textures : ~boundSurface[t])
    /\ [][(deleted' /\ ~deleted) =>
             Count(calls', "Texture::releaseTexImageFromSurface")
                = IF mTexture # NoTexture THEN 1 ELSE 0]_vars

\* C19 witness: a deferred teardown that released a bound texture.
C19_Witness ==
    /\ deleted /\ lastCall = "setIsCurrent(false)"
    /\ Count(calls, "Texture::releaseTexImageFromSurface") = 1

\* C20: between operations the surface records a texture as bound exactly
\* when that texture records the surface as its source.
C20_BindingConsistent ==
    \A t \in Textures : (mTexture = t) <=> boundSurface[t]

\* C20 witness: the bound texture has unbound itself from a surface on which
\* initialize has been called; neither side records the other.
C20_Witness ==
    /\ lastCall = "releaseTexImageFromTexture" /\ ~aborted
    /\ mTexture = NoTexture /\ \A t \in Textures : ~boundSurface[t]
    /\ initializeCalled

\* C21: the backend's destroy and the framebuffer's destroyDefault are called
\* only by the operation that deletes the surface; that operation calls the
\* backend's destroy once, and destroyDefault once when initialize had
\* succeeded and not at all when it had failed or was never called.
C21_DestroyCallsOnce ==
    /\ ~deleted =>
          /\ Count(calls, "SurfaceImpl::destroy") = 0
          /\ Count(calls, "Framebuffer::destroyDefault") = 0
    /\ deleted =>
          /\ destroyRuns = 1
          /\ Count(calls, "SurfaceImpl::destroy") = 1
          /\ Count(calls, "Framebuffer::destroyDefault")
                = IF initializeCalled /\ implSwapBehavior # "none" THEN 1 ELSE 0

\* C21 witness: a surface whose initialize failed has been torn down; the
\* backend was destroyed, the framebuffer that never existed was skipped.
C21_Witness ==
    /\ deleted /\ initializeCalled /\ implSwapBehavior = "none"
    /\ Count(calls, "SurfaceImpl::destroy") = 1
    /\ Count(calls, "Framebuffer::destroyDefault") = 0

C23_DecodeAllOrNothing ==
    [][fetchCall' = "decode" =>
          /\ decodeReturned' <=> (failingField' = 0)
          /\ ~decodeReturned' => options' = options
          /\ decodeReturned' =>
                /\ options'.destination = thisOptions.destination
                /\ options'.mode = thisOptions.mode
                /\ options'.credentials = thisOptions.credentials
                /\ options'.cache = thisOptions.cache
                /\ options'.redirect = thisOptions.redirect
                /\ options'.referrerPolicy = thisOptions.referrerPolicy
                /\ options'.integrity = thisOptions.integrity
                /\ options'.keepAlive = thisOptions.keepAlive]_fetchVars

\* C23 witness: the data ended before the last field; the seven fields before
\* it were decoded, all differ from the output's, and the output is untouched.
C23_Witness ==
    /\ fetchCall = "decode" /\ failingField = 8 /\ ~decodeReturned
    /\ options = FetchOptionsDefault
    /\ thisOptions =
          FetchOptions("Xslt", "Cors", "Include", "OnlyIfCached", "Manual",
                       "UnsafeUrl", String(<<2>>), TRUE)

\* The default FetchOptions with one field replaced, for every enumerator of
\* every enumeration, every string and both booleans.
OneFieldValues ==
    {[FetchOptionsDefault EXCEPT !.destination = Destination[i]] :
        i \in 1..Len(Destination)}
    \cup {[FetchOptionsDefault EXCEPT !.mode = Mode[i]] : i \in 1..Len(Mode)}
    \cup {[FetchOptionsDefault EXCEPT !.credentials = Credentials[i]] :
            i \in 1..Len(Credentials)}
    \cup {[FetchOptionsDefault EXCEPT !.cache = Cache[i]] : i \in 1..Len(Cache)}
    \cup {[FetchOptionsDefault EXCEPT !.redirect = Redirect[i]] :
            i \in 1..Len(Redirect)}
    \cup {[FetchOptionsDefault EXCEPT !.referrerPolicy = ReferrerPolicy[i]] :
            i \in 1..Len(ReferrerPolicy)}
    \cup {[FetchOptionsDefault EXCEPT !.integrity = i] : i \in Strings}
    \cup {[FetchOptionsDefault EXCEPT !.keepAlive = k] : k \in BOOLEAN}

\* C24: a decode from exactly the data that encode produced returns true and
\* leaves in the output a value equal to the encoded one; and this holds for
\* every enumerator of every field.
C24_EncodeDecodeRoundTrip ==
    /\ (fetchCall = "decode" /\ encoderBuffer # <<>>
            /\ decoderBuffer = encoderBuffer) =>
          decodeReturned /\ options = thisOptions
    /\ fetchCall = "encode" =>
          \A value \in OneFieldValues \cup {thisOptions} :
             /\ decode(encode(value), options).returned
             /\ decode(encode(value), options).options = value

\* C24 witness: a value with a non-empty integrity string has made the trip.
C24_Witness ==
    /\ fetchCall = "decode" /\ decoderBuffer = encoderBuffer
    /\ decodeReturned /\ options = thisOptions
    /\ options =
          FetchOptions("Xslt", "Navigate", "Include", "Default", "Manual",
                       "EmptyString", String(<<1>>), TRUE)

\* The objects below a base in order, each anonymous block standing for what
\* is inside it.
RECURSIVE Leaves(_)
Leaves(children) ==
    IF children = <<>> THEN <<>>
    ELSE (IF Head(children).isAnonymousBlock THEN Head(children).children
          ELSE <<Head(children).id>>)
         \o Leaves(Tail(children))

\* C22: after moveChildren(toBase, beforeChild) this base holds beforeChild
\* and the children after it, as they were and none of them destroyed, and
\* the target holds what it held followed by the children that came before
\* beforeChild, in their order (anonymous blocks put around them aside).
C22_MovesChildrenBefore ==
    rubyCall = "moveChildren" =>
       LET end == EndOfMove(thisBaseBefore.children, beforeChild)
           kept == SubSeq(thisBaseBefore.children, end,
                          Len(thisBaseBefore.children))
           moved == SubSeq(thisBaseBefore.children, 1, end - 1)
       IN  /\ thisBase.children = kept
           /\ \A i \in 1..Len(kept) : kept[i].id \notin destroyedObjects
           /\ Leaves(toBase.children) = Leaves(toBaseBefore.children) \o Leaves(moved)

\* C22 with the case left out in which beforeChild itself is destroyed.
C22_UnlessBeforeChildDestroyed ==
    beforeChild \notin destroyedObjects => C22_MovesChildrenBefore

\* The direct children of `base` are all inline or all block-level, as
\* childrenInline() says.
NoMix(base) ==
    \A i \in 1..Len(base.children) :
       base.children[i].isInline = base.childrenInline

\* Inline children moved into a target with block-level children are inside
\* an anonymous block that is the target's last child: its former last child
\* when that was an anonymous block with inline children, else a new one.
InlineIntoBlocks ==
    (/\ thisBaseBefore.childrenInline /\ thisBaseBefore.children # <<>>
     /\ ~toBaseBefore.childrenInline) =>
       LET n == Len(toBaseBefore.children)
           end == EndOfMove(thisBaseBefore.children, beforeChild)
           moved == ChildIds(SubSeq(thisBaseBefore.children, 1, end - 1))
           last == toBase.children[Len(toBase.children)]
           reuse ==
               /\ n > 0
               /\ toBaseBefore.children[n].isAnonymousBlock
               /\ toBaseBefore.children[n].childrenInline
       IN  /\ toBase.children # <<>>
           /\ last.isAnonymousBlock /\ last.childrenInline
           /\ IF reuse
              THEN toBase.children =
                      [toBaseBefore.children EXCEPT ![n].children = @ \o moved]
              ELSE /\ toBase.children =
                         Append(toBaseBefore.children,
                                [createAnonymousBlock(last.id)
                                    EXCEPT !.children = moved])
                   /\ last.id \notin UsedIds(thisBaseBefore, toBaseBefore, {})

\* Before block-level children are moved into a target with inline children
\* the target's children are made non-inline: they come first, inside an
\* anonymous block.
BlocksIntoInline ==
    (/\ ~thisBaseBefore.childrenInline /\ thisBaseBefore.children # <<>>
     /\ toBaseBefore.childrenInline) =>
       /\ ~toBase.childrenInline
       /\ toBaseBefore.children # <<>> =>
             /\ toBase.children[1].isAnonymousBlock
             /\ toBase.children[1].id \notin UsedIds(thisBaseBefore, toBaseBefore, {})
             /\ SubSeq(toBase.children[1].children, 1, Len(toBaseBefore.children))
                   = ChildIds(toBaseBefore.children)

\* C26 as stated: the target's direct children are never mixed, inline
\* children moved to a block target are wrapped, an inline target is made
\* non-inline before block children arrive, and a moveChildren on a base
\* without children leaves the target exactly as it was.
C26_TargetUntouchedWhenEmpty ==
    /\ NoMix(toBase)
    /\ rubyCall = "moveChildren" =>
          /\ InlineIntoBlocks
          /\ BlocksIntoInline
          /\ thisBaseBefore.children = <<>> => toBase = toBaseBefore

\* C26, amended: as above, but a moveChildren on a base without children
\* leaves the target's children and childrenInline() as they were and still
\* marks the target as needing layout.
C26_TargetNeverMixed ==
    /\ NoMix(toBase)
    /\ rubyCall = "moveChildren" =>
          /\ InlineIntoBlocks
          /\ BlocksIntoInline
          /\ toBase.needsLayout
          /\ thisBaseBefore.children = <<>> =>
                /\ toBase.children = toBaseBefore.children
                /\ toBase.childrenInline = toBaseBefore.childrenInline

\* C26 witness: two inline children were moved to a target whose last child
\* is a block of its own; they are inside a new anonymous block after it.
C26_Witness ==
    /\ rubyCall = "moveChildren" /\ beforeChild = 0
    /\ thisBaseBefore.childrenInline /\ Len(thisBaseBefore.children) = 2
    /\ ~toBaseBefore.childrenInline /\ Len(toBaseBefore.children) = 1
    /\ ~toBaseBefore.children[1].isAnonymousBlock
    /\ Len(toBase.children) = 2
    /\ toBase.children[2].isAnonymousBlock
    /\ toBase.children[2].children = ChildIds(thisBaseBefore.children)

====
